---- MODULE Spec2Model ----
(***************************************************************************)
(* A model of marda_extractors_api: the extract() orchestrator, the        *)
(* MardaExtractor plan object (constructor, install, execute) and its      *)
(* static helpers parse_usage, apply_template_args and _prepare_python.    *)
(*                                                                         *)
(* Python str values are sequences of one-character strings, so that       *)
(* split / strip / replace / repr are computed as Python computes them.    *)
(* A call that raises is the record [ok |-> FALSE, err |-> <exception>].   *)
(***************************************************************************)
EXTENDS Integers, Sequences, FiniteSets, TLC

VARIABLES
    fn,       \* static helper under test: "idle" before the call, its name after
    args,     \* the arguments the helper is called with
    ret,      \* what the helper returned or raised
    pc,       \* per call: position in extract / MardaExtractor
    req,      \* per call: the arguments of the call
    obj,      \* per call: the MardaExtractor fields and the locals of the frame
    out,      \* per call: the outcome, "none" while running
    trace,    \* per call: the externally visible steps taken, in order
    files,    \* paths that exist on the filesystem
    venvs,    \* venv directory -> packages installed in it (created dirs only)
    ambient   \* packages installed in the ambient interpreter

vars == <<fn, args, ret, pc, req, obj, out, trace, files, venvs, ambient>>

pureVars == <<fn, args, ret>>
flowVars == <<pc, req, obj, out, trace, files, venvs, ambient>>

None == [kind |-> "none"]

Ok(v) == [ok |-> TRUE, val |-> v]
Raise(e) == [ok |-> FALSE, err |-> e]

(***************************************************************************)
(* Python str operations                                                   *)
(***************************************************************************)
Whitespace == {" ", "\t"}

Has(s, ch) == \E i \in 1..Len(s) : s[i] = ch

Find(s, ch) == IF Has(s, ch) THEN CHOOSE i \in 1..Len(s) : s[i] = ch /\ \A j \in 1..(i-1) : s[j] # ch ELSE 0

RECURSIVE Split(_, _)
Split(s, sep) ==
    IF ~Has(s, sep) THEN <<s>>
    ELSE LET i == Find(s, sep)
         IN <<SubSeq(s, 1, i - 1)>> \o Split(SubSeq(s, i + 1, Len(s)), sep)

RECURSIVE LStrip(_)
LStrip(s) == IF s # <<>> /\ s[1] \in Whitespace THEN LStrip(Tail(s)) ELSE s

RECURSIVE RStrip(_)
RStrip(s) == IF s # <<>> /\ s[Len(s)] \in Whitespace THEN RStrip(SubSeq(s, 1, Len(s) - 1)) ELSE s

Strip(s) == RStrip(LStrip(s))

StartsWith(s, ch) == s # <<>> /\ s[1] = ch
EndsWith(s, ch) == s # <<>> /\ s[Len(s)] = ch
RemovePrefix(s, ch) == IF StartsWith(s, ch) THEN Tail(s) ELSE s
RemoveSuffix(s, ch) == IF EndsWith(s, ch) THEN SubSeq(s, 1, Len(s) - 1) ELSE s

IsPrefixAt(s, old, i) == i + Len(old) - 1 <= Len(s) /\ SubSeq(s, i, i + Len(old) - 1) = old

RECURSIVE Replace(_, _, _)
Replace(s, old, new) ==
    IF s = <<>> THEN <<>>
    ELSE IF IsPrefixAt(s, old, 1) THEN new \o Replace(SubSeq(s, Len(old) + 1, Len(s)), old, new)
    ELSE <<s[1]>> \o Replace(Tail(s), old, new)

RECURSIVE Join(_, _)
Join(parts, sep) ==
    IF parts = <<>> THEN <<>>
    ELSE IF Len(parts) = 1 THEN parts[1]
    ELSE parts[1] \o sep \o Join(Tail(parts), sep)

RECURSIVE Escape(_, _)
Escape(s, q) ==
    IF s = <<>> THEN <<>>
    ELSE (IF s[1] \in {"\\", q} THEN <<"\\", s[1]>> ELSE <<s[1]>>) \o Escape(Tail(s), q)

Repr(s) ==
    LET q == IF Has(s, "'") /\ ~Has(s, "\"") THEN "\"" ELSE "'"
    IN <<q>> \o Escape(s, q) \o <<q>>

(***************************************************************************)
(* pathlib.Path values: the components of a relative path; str(Path) joins *)
(* them with "/" and the empty path prints as "."                          *)
(***************************************************************************)
Str(text) == [kind |-> "str", text |-> text]
Path(parts) == [kind |-> "path", parts |-> parts]

StrOf(v) ==
    IF v.kind = "path"
    THEN IF v.parts = <<>> THEN <<".">> ELSE Join(v.parts, <<"/">>)
    ELSE v.text

Truthy(v) == v # None /\ StrOf(v) # <<>>

(***************************************************************************)
(* MardaExtractor.parse_usage                                              *)
(***************************************************************************)
ExecutionMethods == {"cli", "python"}

RECURSIVE ParseUsageLoop(_, _, _, _)
ParseUsageLoop_IgnoresPreference(usage, i, preferred, last) ==
    IF usage = <<>> THEN Raise("UnboundLocalError")
    ELSE IF usage[1].method \notin ExecutionMethods THEN Raise("ValueError")
    ELSE Ok(<<usage[1].method, usage[1].command, usage[1].setup>>)

ParseUsageLoop(usage, i, preferred, last) ==
    IF i > Len(usage) THEN
        IF i = 1 THEN Raise("UnboundLocalError") ELSE Ok(last)
    ELSE IF usage[i].method \notin ExecutionMethods THEN Raise("ValueError")
    ELSE LET cur == <<usage[i].method, usage[i].command, usage[i].setup>>
         IN IF usage[i].method = preferred THEN Ok(cur)
            ELSE ParseUsageLoop(usage, i + 1, preferred, cur)

ParseUsage(usage, preferred) == ParseUsageLoop(usage, 1, preferred, <<>>)

(***************************************************************************)
(* MardaExtractor.apply_template_args                                      *)
(***************************************************************************)
default_fields == {"input_type", "input_path", "output_type", "output_path"}

FieldName(f) ==
    CASE f = "input_type" -> <<"i","n","p","u","t","_","t","y","p","e">>
      [] f = "input_path" -> <<"i","n","p","u","t","_","p","a","t","h">>
      [] f = "output_type" -> <<"o","u","t","p","u","t","_","t","y","p","e">>
      [] f = "output_path" -> <<"o","u","t","p","u","t","_","p","a","t","h">>

Placeholder(f) == <<"{", "{", " ">> \o FieldName(f) \o <<" ", "}", "}">>

\* additional_template.get(field) or locals()[field]
ResolvedValue(f, values, additional_template) ==
    IF f \in DOMAIN additional_template /\ Truthy(additional_template[f])
    THEN additional_template[f]
    ELSE values[f]

Substitute_AlwaysBare(command, method, f, value) ==
    Replace(command, Placeholder(f), StrOf(value))

Substitute(command, method, f, value) ==
    IF method = "cli"
    THEN Replace(command, Placeholder(f), StrOf(value))
    ELSE Replace(command, Placeholder(f), Repr(StrOf(value)))

\* the loop over the set default_fields, visited in the order `order`
RECURSIVE ApplyTemplateLoop(_, _, _, _, _)
ApplyTemplateLoop(command, method, values, additional_template, order) ==
    IF order = <<>> THEN command
    ELSE LET value == ResolvedValue(order[1], values, additional_template)
         IN ApplyTemplateLoop(
                IF value = None THEN command ELSE Substitute(command, method, order[1], value),
                method, values, additional_template, Tail(order))

ApplyTemplateArgs(command, method, values, additional_template, order) ==
    ApplyTemplateLoop(command, method, values,
                      IF additional_template = None THEN <<>> ELSE additional_template,
                      order)

(***************************************************************************)
(* MardaExtractor._prepare_python                                          *)
(* A dict is a function from its keys; update overwrites or adds a key.    *)
(***************************************************************************)
EmptyDict == <<>>

DictUpdate(d, k, v) == [x \in (DOMAIN d) \cup {k} |-> IF x = k THEN v ELSE d[x]]

dequote(s0) ==
    LET s == Strip(s0)
        t == IF StartsWith(s, "'") \/ EndsWith(s, "'")
             THEN RemoveSuffix(RemovePrefix(s, "'"), "'")
             ELSE IF StartsWith(s, "\"") \/ EndsWith(s, "\"")
             THEN RemoveSuffix(RemovePrefix(s, "\""), "\"")
             ELSE s
    IN Strip(t)

\* [kw |-> TRUE, key, val] for a keyword argument, [kw |-> FALSE, val] for a
\* positional one, or a raise
parse_python_arg(arg) ==
    IF Has(arg, "=")
    THEN LET split_arg == Split(arg, "=")
         IN IF Len(split_arg) > 2 \/ Has(arg, "{") \/ Has(arg, "}")
            THEN Raise("RuntimeError: Cannot parse")
            ELSE Ok([kw |-> TRUE, key |-> dequote(split_arg[1]), val |-> dequote(split_arg[2])])
    ELSE Ok([kw |-> FALSE, key |-> <<>>, val |-> dequote(arg)])

RECURSIVE PrepareArgsLoop(_, _, _)
PrepareArgsLoop(segments, pyargs, kwargs) ==
    IF segments = <<>> THEN Ok([args |-> pyargs, kwargs |-> kwargs])
    ELSE LET parsed_arg == parse_python_arg(segments[1])
         IN IF ~parsed_arg.ok THEN parsed_arg
            ELSE IF parsed_arg.val.kw
            THEN PrepareArgsLoop(Tail(segments), pyargs,
                                 DictUpdate(kwargs, parsed_arg.val.key, parsed_arg.val.val))
            ELSE PrepareArgsLoop(Tail(segments), Append(pyargs, parsed_arg.val.val), kwargs)

PreparePython(command) ==
    LET by_paren == Split(command, "(")
        function_tree == Split(by_paren[1], ".")
    IN IF Len(by_paren) < 2 THEN Raise("IndexError")
       ELSE LET segments == Split(Split(by_paren[2], ")")[1], ",")
                parsed == PrepareArgsLoop(segments, <<>>, EmptyDict)
            IN IF ~parsed.ok THEN parsed
               ELSE Ok([function_tree |-> function_tree,
                        args |-> parsed.val.args,
                        kwargs |-> parsed.val.kwargs])

(***************************************************************************)
(* Calls in progress.  pc[c] is the position of call c, obj[c] the fields of *)
(* its MardaExtractor and the locals of its frames, out[c] its outcome and  *)
(* trace[c] the steps it has taken.                                         *)
(***************************************************************************)
Ev(name, i, what, ok) == [ev |-> name, i |-> i, what |-> what, ok |-> ok]

NoFrame ==
    [entry |-> None, preferred_mode |-> "python", venv_dir |-> None,
     tmp_path |-> None, input_path |-> None, output_path |-> None,
     i |-> 0, j |-> 0,
     method |-> "", command |-> <<>>, setup |-> None, template |-> None,
     function_tree |-> <<>>, pyargs |-> <<>>, kwargs |-> <<>>,
     proc_ok |-> FALSE]

Goto(c, label) == pc' = [pc EXCEPT ![c] = label]

Log(c, e) == trace' = [trace EXCEPT ![c] = Append(@, e)]

Set(c, f) == obj' = [obj EXCEPT ![c] = f]

\* the call ends: it returns, or the exception e leaves the frame at `label`
Finish(c, result, label) ==
    /\ out' = [out EXCEPT ![c] = result]
    /\ Goto(c, label)

\* where an exception (or the return) of the constructor and of execute goes:
\* into the finally clause of extract, or out of the call
Unwind(c) == IF req[c].kind = "extract" THEN "finally" ELSE "done"

(***************************************************************************)
(* MardaExtractor.__init__                                                 *)
(***************************************************************************)
MardaVenvs == <<"m", "a", "r", "d", "a", "-", "v", "e", "n", "v", "s">>

\* Path(__file__).parent.parent / "marda-venvs" / f"env-{self.entry['id']}"
VenvDir(id) == StrOf(Path(<<MardaVenvs, <<"e", "n", "v", "-">> \o id>>))

\* venv.create(dir, with_pip=True) with clear=True: the directory is emptied
VenvCreate_Clears(dirs, dir) ==
    [d \in (DOMAIN dirs) \cup {dir} |-> {}]

\* venv.create(dir, with_pip=True), clear=False: an existing directory keeps
\* what is installed in it
VenvCreate(dirs, dir) ==
    [d \in (DOMAIN dirs) \cup {dir} |-> IF d \in DOMAIN dirs THEN dirs[d] ELSE {}]

\* self.entry, self.preferred_mode, self.venv_dir; venv.create may raise
Construct(c) ==
    /\ pc[c] = "init"
    /\ LET entry == IF req[c].kind = "extract" /\ req[c].extractor_definition = None
                    THEN obj[c].entry ELSE req[c].extractor_definition
           dir == VenvDir(entry.id)
           frame == [obj[c] EXCEPT !.entry = entry,
                                   !.preferred_mode = req[c].preferred_mode,
                                   !.venv_dir = IF req[c].use_venv THEN Str(dir) ELSE None,
                                   !.input_path = IF req[c].kind = "extract" THEN @
                                                  ELSE req[c].input_path,
                                   !.output_path = IF req[c].kind = "extract" THEN @
                                                   ELSE req[c].output_path]
       IN \/ /\ req[c].use_venv
             /\ venvs' = VenvCreate(venvs, dir)
             /\ Set(c, frame)
             /\ Log(c, Ev("venv_create", Cardinality(VenvCreate(venvs, dir)[dir]), dir, TRUE))
             /\ Goto(c, IF req[c].install THEN "install" ELSE "constructed")
             /\ UNCHANGED out
          \/ /\ req[c].use_venv
             /\ Set(c, frame)
             /\ Log(c, Ev("venv_create", 0, dir, FALSE))
             /\ Finish(c, "OSError: venv.create", Unwind(c))
             /\ UNCHANGED venvs
          \/ /\ ~req[c].use_venv
             /\ Set(c, frame)
             /\ Goto(c, IF req[c].install THEN "install" ELSE "constructed")
             /\ UNCHANGED <<venvs, trace, out>>
    /\ UNCHANGED <<pureVars, req, files, ambient>>

(***************************************************************************)
(* MardaExtractor.install                                                  *)
(***************************************************************************)
InstallationMethods == {"pip", "conda"}

\* the packages `python -m pip install` can install
Installable == {"yadg"}

\* subprocess.run([python, "-m", "pip", "install", p], check=True)
PipSucceeds(p) == p \in Installable

\* if not self.entry.get("installation"): raise
InstallBegin(c) ==
    /\ pc[c] = "install"
    /\ IF obj[c].entry.installation = <<>>
       THEN /\ Finish(c, "RuntimeError: No installation instructions", Unwind(c))
            /\ UNCHANGED obj
       ELSE /\ Set(c, [obj[c] EXCEPT !.i = 1, !.j = 0])
            /\ Goto(c, "recipe")
            /\ UNCHANGED out
    /\ UNCHANGED <<pureVars, req, trace, files, venvs, ambient>>

\* `except Exception: continue` after a failed pip run, leaving recipe i
AfterPipFailure_Raises(i) == [next |-> "raise", i |-> i]

AfterPipFailure(i) == [next |-> "recipe", i |-> i + 1]

AfterRecipeInstalled(i) == [next |-> "installed", i |-> i]

\* for instructions in self.entry["installation"]: the head of the loop
InstallRecipe(c) ==
    /\ pc[c] = "recipe"
    /\ LET installation == obj[c].entry.installation
           i == obj[c].i
       IN IF i > Len(installation)
          THEN /\ Goto(c, "installed")
               /\ UNCHANGED <<obj, out, trace>>
          ELSE IF installation[i].method \notin InstallationMethods
          THEN /\ Finish(c, "ValueError: not a valid SupportedInstallationMethod", Unwind(c))
               /\ Log(c, Ev("recipe", i, installation[i].method, FALSE))
               /\ UNCHANGED obj
          ELSE IF installation[i].method = "pip"
          THEN /\ Log(c, Ev("recipe", i, "pip", TRUE))
               /\ IF installation[i].packages = <<>>
                  THEN /\ Set(c, [obj[c] EXCEPT !.i = AfterRecipeInstalled(i).i])
                       /\ Goto(c, AfterRecipeInstalled(i).next)
                  ELSE /\ Set(c, [obj[c] EXCEPT !.j = 1])
                       /\ Goto(c, "pip")
               /\ UNCHANGED out
          ELSE /\ Finish(c, "RuntimeError: Installation method not yet supported", Unwind(c))
               /\ Log(c, Ev("recipe", i, installation[i].method, FALSE))
               /\ UNCHANGED obj
    /\ UNCHANGED <<pureVars, req, files, venvs, ambient>>

\* one `python -m pip install p`, with the venv's interpreter if there is one
PipInstall(c) ==
    /\ pc[c] = "pip"
    /\ LET i == obj[c].i
           j == obj[c].j
           packages == obj[c].entry.installation[i].packages
           p == packages[j]
       IN /\ Log(c, Ev("pip", i, p, PipSucceeds(p)))
          /\ IF PipSucceeds(p)
             THEN /\ IF obj[c].venv_dir # None
                     THEN /\ venvs' = [venvs EXCEPT ![StrOf(obj[c].venv_dir)] = @ \cup {p}]
                          /\ UNCHANGED ambient
                     ELSE /\ ambient' = ambient \cup {p}
                          /\ UNCHANGED venvs
                  /\ IF j < Len(packages)
                     THEN /\ Set(c, [obj[c] EXCEPT !.j = j + 1])
                          /\ Goto(c, "pip")
                     ELSE /\ Set(c, [obj[c] EXCEPT !.i = AfterRecipeInstalled(i).i])
                          /\ Goto(c, AfterRecipeInstalled(i).next)
                  /\ UNCHANGED out
             ELSE /\ UNCHANGED <<venvs, ambient>>
                  /\ IF AfterPipFailure(i).next = "raise"
                     THEN /\ Finish(c, "CalledProcessError: pip", Unwind(c))
                          /\ UNCHANGED obj
                     ELSE /\ Set(c, [obj[c] EXCEPT !.i = AfterPipFailure(i).i])
                          /\ Goto(c, "recipe")
                          /\ UNCHANGED out
    /\ UNCHANGED <<pureVars, req, files>>

\* install returns normally
InstallReturn(c) ==
    /\ pc[c] = "installed"
    /\ Log(c, Ev("install", obj[c].i, "returned", TRUE))
    /\ Goto(c, "constructed")
    /\ UNCHANGED <<pureVars, req, obj, out, files, venvs, ambient>>

\* the constructor returns: to the caller, or to extract, which calls execute
Constructed(c) ==
    /\ pc[c] = "constructed"
    /\ IF req[c].kind = "MardaExtractor"
       THEN Finish(c, "returned", "done")
       ELSE Goto(c, "execute") /\ UNCHANGED out
    /\ UNCHANGED <<pureVars, req, obj, trace, files, venvs, ambient>>

(***************************************************************************)
(* The filesystem and the importable modules                               *)
(***************************************************************************)
Exists(fs, path) == StrOf(path) \in fs

RECURSIVE LastDot(_, _)
LastDot(name, i) == IF i = 0 THEN 0 ELSE IF name[i] = "." THEN i ELSE LastDot(name, i - 1)

\* Path.with_suffix: the suffix of the last component is replaced, or added
WithSuffix(path, suffix) ==
    LET name == path.parts[Len(path.parts)]
        dot == LastDot(name, Len(name))
        stem == IF dot > 1 THEN SubSeq(name, 1, dot - 1) ELSE name
    IN Path([path.parts EXCEPT ![Len(path.parts)] = stem \o suffix])

DotJson == <<".", "j", "s", "o", "n">>

Yadg == <<"y", "a", "d", "g">>
Extractors == <<"e", "x", "t", "r", "a", "c", "t", "o", "r", "s">>
Extract == <<"e", "x", "t", "r", "a", "c", "t">>
Json == <<"j", "s", "o", "n">>
Loads == <<"l", "o", "a", "d", "s">>

\* import target -> the module import_module returns: its __name__, the
\* attribute paths that getattr resolves from it, and the callables among them.
\* yadg comes with the package "yadg"; json is part of the interpreter.
ModuleTable(installed) ==
    LET yadg == [name |-> Yadg,
                 attrs |-> {<<Extractors>>, <<Extractors, Extract>>},
                 callables |-> {<<Extractors, Extract>>}]
        yadg_extractors == [name |-> Yadg \o <<".">> \o Extractors,
                            attrs |-> {<<Extract>>},
                            callables |-> {<<Extract>>}]
        json == [name |-> Json, attrs |-> {<<Loads>>}, callables |-> {<<Loads>>}]
    IN [t \in {Json} \cup (IF "yadg" \in installed
                           THEN {Yadg, Yadg \o <<".">> \o Extractors} ELSE {}) |->
          IF t = Json THEN json ELSE IF t = Yadg THEN yadg ELSE yadg_extractors]

(***************************************************************************)
(* MardaExtractor.execute                                                  *)
(***************************************************************************)
\* the index of the first supported filetype whose id is input_type, 0 if none
FiletypeIndex_AcceptsAny(supported_filetypes, input_type) ==
    IF supported_filetypes = <<>> THEN 0 ELSE 1

FiletypeIndex(supported_filetypes, input_type) ==
    LET hits == {i \in 1..Len(supported_filetypes) : supported_filetypes[i].id = input_type}
    IN IF hits = {} THEN 0 ELSE CHOOSE i \in hits : \A j \in hits : i <= j

\* for filetype in self.entry["supported_filetypes"]: ... else: raise ValueError
ExecuteTypeCheck(c) ==
    /\ pc[c] = "execute"
    /\ LET k == FiletypeIndex(obj[c].entry.supported_filetypes, req[c].input_type)
       IN IF k = 0
          THEN /\ Finish(c, "ValueError: File type not supported", Unwind(c))
               /\ Log(c, Ev("execute", 0, "type_check", FALSE))
               /\ UNCHANGED obj
          ELSE /\ Set(c, [obj[c] EXCEPT !.template = obj[c].entry.supported_filetypes[k].template])
               /\ Log(c, Ev("execute", 0, "type_check", TRUE))
               /\ Goto(c, "usage")
               /\ UNCHANGED out
    /\ UNCHANGED <<pureVars, req, files, venvs, ambient>>

\* method, command, setup = self.parse_usage(self.entry["usage"], ...)
ExecuteUsage(c) ==
    /\ pc[c] = "usage"
    /\ LET parsed == ParseUsage(obj[c].entry.usage, obj[c].preferred_mode)
       IN IF parsed.ok
          THEN /\ Set(c, [obj[c] EXCEPT !.method = parsed.val[1],
                                        !.command = parsed.val[2],
                                        !.setup = parsed.val[3]])
               /\ Log(c, Ev("parse_usage", 0, parsed.val[1], TRUE))
               /\ Goto(c, "template")
               /\ UNCHANGED out
          ELSE /\ Finish(c, parsed.err, Unwind(c))
               /\ Log(c, Ev("parse_usage", 0, parsed.err, FALSE))
               /\ UNCHANGED obj
    /\ UNCHANGED <<pureVars, req, files, venvs, ambient>>

FieldOrders ==
    {o \in [1..4 -> default_fields] : \A i, j \in 1..4 : i # j => o[i] # o[j]}

\* the default output path, then apply_template_args on command and on setup
ExecuteTemplate(c) ==
    /\ pc[c] = "template"
    /\ \E order \in FieldOrders :
         LET input_path == obj[c].input_path
             output_path == IF obj[c].output_path = None
                            THEN WithSuffix(input_path, DotJson)
                            ELSE obj[c].output_path
             values == [input_type |-> Str(req[c].input_type),
                        input_path |-> input_path,
                        output_type |-> req[c].output_type,
                        output_path |-> output_path]
             command == ApplyTemplateArgs(obj[c].command, obj[c].method, values,
                                          obj[c].template, order)
             setup == IF obj[c].setup = None THEN None
                      ELSE Str(ApplyTemplateArgs(StrOf(obj[c].setup), obj[c].method, values,
                                                 obj[c].template, order))
         IN /\ Set(c, [obj[c] EXCEPT !.command = command, !.setup = setup,
                                     !.input_path = input_path,
                                     !.output_path = output_path])
            /\ Log(c, Ev("template", 0, obj[c].method, TRUE))
            /\ Goto(c, IF obj[c].method = "cli" THEN "cli"
                       ELSE IF obj[c].venv_dir # None THEN "python_venv" ELSE "python")
    /\ UNCHANGED <<pureVars, req, out, files, venvs, ambient>>

\* _execute_cli / _execute_cli_venv: subprocess.check_output raises on a
\* non-zero exit status; the command may or may not write the output file
ExecuteCli(c) ==
    /\ pc[c] = "cli"
    /\ \E status \in {0, 1}, writes \in BOOLEAN :
         /\ files' = IF writes THEN files \cup {StrOf(obj[c].output_path)} ELSE files
         /\ Log(c, Ev("subprocess", status, "cli", status = 0))
         /\ IF status = 0
            THEN Goto(c, "check_output") /\ UNCHANGED out
            ELSE Finish(c, "CalledProcessError", Unwind(c))
    /\ UNCHANGED <<pureVars, req, obj, venvs, ambient>>

OutputExists_Unchecked(fs, output_path) == TRUE

\* output_path.exists()
OutputExists(fs, output_path) == Exists(fs, output_path)

\* if not output_path.exists(): raise RuntimeError; return output
CheckOutput(c) ==
    /\ pc[c] = "check_output"
    /\ IF OutputExists(files, obj[c].output_path)
       THEN Finish(c, "returned", Unwind(c))
       ELSE Finish(c, "RuntimeError: Requested output file does not exist", Unwind(c))
    /\ UNCHANGED <<pureVars, req, obj, trace, files, venvs, ambient>>

\* _execute_python_venv: the generated program runs in the venv's interpreter
\* and its pickled result is read back; check_output raises if it fails
ExecutePythonVenv(c) ==
    /\ pc[c] = "python_venv"
    /\ \E status \in {0, 1} :
         /\ Log(c, Ev("subprocess", status, "python", status = 0))
         /\ IF status = 0
            THEN Finish(c, "returned", Unwind(c))
            ELSE Finish(c, "CalledProcessError", Unwind(c))
    /\ UNCHANGED <<pureVars, req, obj, files, venvs, ambient>>

(***************************************************************************)
(* MardaExtractor._execute_python                                          *)
(***************************************************************************)
SetupIsSimple(setup) == ~Has(setup, " ")

\* the setup check and import_module(module)
PyImport(c) ==
    /\ pc[c] = "python"
    /\ IF obj[c].setup = None
       THEN /\ Finish(c, "TypeError: argument of type 'NoneType' is not iterable", Unwind(c))
            /\ UNCHANGED trace
       ELSE IF ~SetupIsSimple(StrOf(obj[c].setup))
       THEN /\ Finish(c, "RuntimeError: Only simple import invocation is supported", Unwind(c))
            /\ UNCHANGED trace
       ELSE IF StrOf(obj[c].setup) \in DOMAIN ModuleTable(ambient)
       THEN /\ Log(c, Ev("import", 0, StrOf(obj[c].setup), TRUE))
            /\ Goto(c, "resolve")
            /\ UNCHANGED out
       ELSE /\ Log(c, Ev("import", 0, StrOf(obj[c].setup), FALSE))
            /\ Finish(c, "ModuleNotFoundError", Unwind(c))
    /\ UNCHANGED <<pureVars, req, obj, files, venvs, ambient>>

\* _descend_function_tree: tree[0] must be module.__name__, the rest is
\* resolved by getattr, attribute after attribute
DescendFunctionTree_SkipsNameCheck(module, tree) ==
    IF \A n \in 1..(Len(tree) - 1) : SubSeq(tree, 2, n + 1) \in module.attrs
    THEN Ok(SubSeq(tree, 2, Len(tree)))
    ELSE Raise("AttributeError")

DescendFunctionTree(module, tree) ==
    IF tree[1] # module.name THEN Raise("RuntimeError: Module name mismatch")
    ELSE IF \A n \in 1..(Len(tree) - 1) : SubSeq(tree, 2, n + 1) \in module.attrs
    THEN Ok(SubSeq(tree, 2, Len(tree)))
    ELSE Raise("AttributeError")

\* _prepare_python(command), then the descent; AttributeError is re-raised
\* as "Could not resolve"
PyResolve(c) ==
    /\ pc[c] = "resolve"
    /\ LET prepared == PreparePython(obj[c].command)
           module == ModuleTable(ambient)[StrOf(obj[c].setup)]
       IN IF ~prepared.ok
          THEN /\ Finish(c, prepared.err, Unwind(c))
               /\ UNCHANGED obj
          ELSE LET function == DescendFunctionTree(module, prepared.val.function_tree)
               IN IF function.ok
                  THEN /\ Set(c, [obj[c] EXCEPT !.function_tree = prepared.val.function_tree,
                                                !.pyargs = prepared.val.args,
                                                !.kwargs = prepared.val.kwargs])
                       /\ Goto(c, "invoke")
                       /\ UNCHANGED out
                  ELSE /\ Finish(c, IF function.err = "AttributeError"
                                    THEN "RuntimeError: Could not resolve"
                                    ELSE function.err, Unwind(c))
                       /\ UNCHANGED obj
    /\ UNCHANGED <<pureVars, req, trace, files, venvs, ambient>>

\* return function(*args, **kwargs): the callable returns or raises; what
\* getattr found need not be callable
PyInvoke(c) ==
    /\ pc[c] = "invoke"
    /\ LET module == ModuleTable(ambient)[StrOf(obj[c].setup)]
           target == SubSeq(obj[c].function_tree, 2, Len(obj[c].function_tree))
       IN IF target \in module.callables
          THEN \E raises \in BOOLEAN :
                 /\ Log(c, Ev("call", Len(obj[c].pyargs), StrOf(obj[c].setup), ~raises))
                 /\ Finish(c, IF raises THEN "Exception: raised by the extractor" ELSE "returned",
                           Unwind(c))
          ELSE /\ Finish(c, "TypeError: object is not callable", Unwind(c))
               /\ UNCHANGED trace
    /\ UNCHANGED <<pureVars, req, obj, files, venvs, ambient>>

(***************************************************************************)
(* extract                                                                 *)
(***************************************************************************)
HttpsPrefix == <<"h", "t", "t", "p", "s", ":", "/">>

\* re.match("^http[s]://*", input_path): "http", one "s", ":", "/", then any
\* number of "/"
MatchesUrlPattern(text) == Len(text) >= 7 /\ SubSeq(text, 1, 7) = HttpsPrefix

IsPathComponent(part) == part # <<>> /\ part # <<".">>

\* Path(str): the components between "/", without the empty ones and "."
PathOf(v) == IF v.kind = "path" THEN v ELSE Path(SelectSeq(Split(v.text, "/"), IsPathComponent))

\* the temporary file urlretrieve makes for call c
TmpPath(c) == Path(<<<<"t", "m", "p">>, <<"u", IF c = 1 THEN "1" ELSE "2", ".", "m">>>>)

\* the isinstance / re.match test and urllib.request.urlretrieve, which may
\* raise; tmp_path stays None unless the download succeeded
ExtractBegin(c) ==
    /\ pc[c] = "extract"
    /\ IF req[c].input_path.kind = "str" /\ MatchesUrlPattern(req[c].input_path.text)
       THEN \/ /\ files' = files \cup {StrOf(TmpPath(c))}
               /\ Set(c, [obj[c] EXCEPT !.tmp_path = TmpPath(c), !.input_path = TmpPath(c)])
               /\ Log(c, Ev("download", 0, "urlretrieve", TRUE))
               /\ Goto(c, "exists")
               /\ UNCHANGED out
            \/ /\ Log(c, Ev("download", 0, "urlretrieve", FALSE))
               /\ Finish(c, "URLError", "finally")
               /\ UNCHANGED <<files, obj>>
       ELSE /\ Set(c, [obj[c] EXCEPT !.input_path = req[c].input_path])
            /\ Goto(c, "exists")
            /\ UNCHANGED <<files, out, trace>>
    /\ UNCHANGED <<pureVars, req, venvs, ambient>>

\* input_path = Path(input_path), the existence check, output_path and the
\* conversion of preferred_mode
ExtractExists(c) ==
    /\ pc[c] = "exists"
    /\ LET input_path == PathOf(obj[c].input_path)
           output_path == IF Truthy(req[c].output_path) THEN PathOf(req[c].output_path) ELSE None
       IN IF ~Exists(files, input_path)
          THEN /\ Finish(c, "RuntimeError: File does not exist", "finally")
               /\ Set(c, [obj[c] EXCEPT !.input_path = input_path])
          ELSE IF req[c].preferred_mode \notin ExecutionMethods
          THEN /\ Finish(c, "ValueError: not a valid SupportedExecutionMethod", "finally")
               /\ Set(c, [obj[c] EXCEPT !.input_path = input_path, !.output_path = output_path])
          ELSE /\ Set(c, [obj[c] EXCEPT !.input_path = input_path, !.output_path = output_path])
               /\ Goto(c, "lookup")
               /\ UNCHANGED out
    /\ UNCHANGED <<pureVars, req, trace, files, venvs, ambient>>

Y == <<"y">>
D == <<"d">>
X == <<"x">>

PyCommand ==
    <<"y", "a", "d", "g", ".", "e", "x", "t", "r", "a", "c", "t", "o", "r", "s", ".", "e", "x", "t", "r", "a", "c", "t", "(", "{", "{", " ", "i", "n", "p", "u", "t", "_", "t", "y", "p", "e", " ", "}", "}", ",", " ", "{", "{", " ", "i", "n", "p", "u", "t", "_", "p", "a", "t", "h", " ", "}", "}", ")">>

CliCommand ==
    <<"y", "a", "d", "g", " ", "{", "{", " ", "i", "n", "p", "u", "t", "_", "p", "a", "t", "h", " ", "}", "}", " ", "{", "{", " ", "o", "u", "t", "p", "u", "t", "_", "p", "a", "t", "h", " ", "}", "}">>

PipYadg == [method |-> "pip", packages |-> <<"yadg">>]
PipNopkg == [method |-> "pip", packages |-> <<"nopkg">>]
Conda == [method |-> "conda", packages |-> <<>>]

PyUsage == [method |-> "python", command |-> PyCommand, setup |-> Str(Yadg)]
CliUsage == [method |-> "cli", command |-> CliCommand, setup |-> None]

\* the entries the registry serves
RegistryEntries ==
    {[id |-> Y, supported_filetypes |-> <<[id |-> X, template |-> None]>>,
      installation |-> <<PipNopkg, PipYadg>>, usage |-> <<PyUsage, CliUsage>>],
     [id |-> D, supported_filetypes |-> <<[id |-> X, template |-> [input_type |-> Str(D)]]>>,
      installation |-> <<PipNopkg, Conda>>, usage |-> <<CliUsage>>]}

\* the two registry requests: the filetype may be unknown (HTTPError), have no
\* registered extractor, or name an extractor whose entry is then fetched
ExtractLookup(c) ==
    /\ pc[c] = "lookup"
    /\ IF req[c].extractor_definition = None
       THEN \/ \E e \in RegistryEntries :
                 /\ Set(c, [obj[c] EXCEPT !.entry = e])
                 /\ Goto(c, "init")
                 /\ UNCHANGED out
            \/ \E err \in {"RuntimeError: Could not find file type",
                           "RuntimeError: No extractors found",
                           "RuntimeError: Could not find extractor"} :
                 /\ Finish(c, err, "finally")
                 /\ UNCHANGED obj
       ELSE /\ Goto(c, "init")
            /\ UNCHANGED <<obj, out>>
    /\ UNCHANGED <<pureVars, req, trace, files, venvs, ambient>>

\* finally: if tmp_path: tmp_path.unlink()
ExtractFinally(c) ==
    /\ pc[c] = "finally"
    /\ IF obj[c].tmp_path # None
       THEN /\ files' = files \ {StrOf(obj[c].tmp_path)}
            /\ Log(c, Ev("unlink", 0, "tmp_path", Exists(files, obj[c].tmp_path)))
            /\ IF Exists(files, obj[c].tmp_path)
               THEN UNCHANGED out
               ELSE out' = [out EXCEPT ![c] = "FileNotFoundError"]
       ELSE UNCHANGED <<files, trace, out>>
    /\ Goto(c, "done")
    /\ UNCHANGED <<pureVars, req, obj, venvs, ambient>>

(***************************************************************************)
(* Bounded input sets                                                      *)
(***************************************************************************)
SeqsUpTo(S, n) == UNION {[1..k -> S] : k \in 0..n}

CallIds == {1, 2}

FlowIdle ==
    /\ pc = [c \in CallIds |-> "idle"]
    /\ req = [c \in CallIds |-> None]
    /\ obj = [c \in CallIds |-> None]
    /\ out = [c \in CallIds |-> "none"]
    /\ trace = [c \in CallIds |-> <<>>]
    /\ files = {}
    /\ venvs = <<>>
    /\ ambient = {}

(***************************************************************************)
(* Specification of parse_usage: every bounded usage list is parsed once   *)
(***************************************************************************)
MaxUsage == 2

UsageRecipes ==
    [method : ExecutionMethods \cup {"docker"},
     command : {<<"a">>, <<"b">>},
     setup : {None, Str(<<"m">>)}]

UsageInit ==
    /\ fn = "idle"
    /\ args \in [usage : SeqsUpTo(UsageRecipes, MaxUsage), preferred_mode : ExecutionMethods]
    /\ ret = None
    /\ FlowIdle

CallParseUsage ==
    /\ fn = "idle"
    /\ fn' = "parse_usage"
    /\ ret' = ParseUsage(args.usage, args.preferred_mode)
    /\ UNCHANGED <<args, flowVars>>

SpecUsage == UsageInit /\ [][CallParseUsage]_vars

WellTyped(usage) == \A i \in 1..Len(usage) : usage[i].method \in ExecutionMethods

Triple(r) == <<r.method, r.command, r.setup>>

\* C7: for every non-empty list of usage recipes and every preferred mode,
\* parse_usage returns the (method, command, setup) of the first recipe whose
\* method is the preferred one, and the last listed recipe if there is none.
C7_ParseUsagePrefersFirstMatch ==
    (fn = "parse_usage" /\ args.usage # <<>> /\ WellTyped(args.usage)) =>
        LET u == args.usage
            m == {i \in 1..Len(u) : u[i].method = args.preferred_mode}
        IN /\ ret.ok
           /\ m # {} => \E i \in m : ret.val = Triple(u[i]) /\ \A j \in m : i <= j
           /\ m = {} => ret.val = Triple(u[Len(u)])

C7_Witness ==
    /\ fn = "parse_usage"
    /\ Len(args.usage) = 2
    /\ args.usage[1].method = "cli"
    /\ args.usage[2].method = "python"
    /\ args.usage[1].command # args.usage[2].command
    /\ args.preferred_mode = "python"
    /\ ret = Ok(Triple(args.usage[2]))

(***************************************************************************)
(* Specification of apply_template_args: a template pre ++ hole ++ post    *)
(* (hole: one placeholder, or nothing) is resolved once                    *)
(***************************************************************************)
TemplatePre == {<<>>, <<"p", " ", "-", "t", "=", "e", " ">>}
TemplatePost == {<<>>, <<" ", ">", "o">>}

TemplateValues ==
    [input_type : {Str(<<"e">>), Str(<<"a", "'", "b">>)},
     input_path : {Path(<<<<"e", ".", "t">>>>), Path(<<<<"d">>, <<"f", "\"", "'">>>>)},
     output_type : {None, Str(<<"j", "\\", "n">>)},
     output_path : {None, Path(<<<<"e", ".", "j">>>>)}]

TemplateOverrides ==
    {None, <<>>,
     [input_type |-> Str(<<"t">>)],
     [input_path |-> Str(<<>>), output_type |-> Str(<<"n">>)]}

TemplateInit ==
    /\ fn = "idle"
    /\ args \in [pre : TemplatePre, hole : default_fields \cup {"none"}, post : TemplatePost,
                 method : ExecutionMethods, values : TemplateValues,
                 additional_template : TemplateOverrides, order : FieldOrders]
    /\ ret = None
    /\ FlowIdle

TemplateOf(a) == a.pre \o (IF a.hole = "none" THEN <<>> ELSE Placeholder(a.hole)) \o a.post

CallApplyTemplateArgs ==
    /\ fn = "idle"
    /\ fn' = "apply_template_args"
    /\ ret' = Ok(ApplyTemplateArgs(TemplateOf(args), args.method, args.values,
                                   args.additional_template, args.order))
    /\ UNCHANGED <<args, flowVars>>

SpecTemplate == TemplateInit /\ [][CallApplyTemplateArgs]_vars

RECURSIVE Unescape(_)
Unescape(s) ==
    IF s = <<>> THEN <<>>
    ELSE IF s[1] = "\\" /\ Len(s) >= 2 THEN <<s[2]>> \o Unescape(SubSeq(s, 3, Len(s)))
    ELSE <<s[1]>> \o Unescape(Tail(s))

RECURSIVE NoBareQuote(_, _)
NoBareQuote(s, q) ==
    IF s = <<>> THEN TRUE
    ELSE IF s[1] = "\\" /\ Len(s) >= 2 THEN NoBareQuote(SubSeq(s, 3, Len(s)), q)
    ELSE s[1] # q /\ NoBareQuote(Tail(s), q)

\* lit is a string literal, in single or in double quotes, that denotes text
IsQuotedLiteralOf(lit, text) ==
    /\ Len(lit) >= 2
    /\ lit[1] \in {"'", "\""}
    /\ lit[Len(lit)] = lit[1]
    /\ NoBareQuote(SubSeq(lit, 2, Len(lit) - 1), lit[1])
    /\ Unescape(SubSeq(lit, 2, Len(lit) - 1)) = text

TemplateHoleValue(a) ==
    IF a.additional_template # None /\ a.hole \in DOMAIN a.additional_template
       /\ StrOf(a.additional_template[a.hole]) # <<>>
    THEN a.additional_template[a.hole]
    ELSE a.values[a.hole]

\* C8: the substituted value is inserted bare for the CLI method and as a
\* quoted string literal for the PYTHON method; a template without a
\* placeholder is returned unchanged for either method.
C8_QuotingIsMethodSensitive ==
    fn = "apply_template_args" =>
        /\ args.hole = "none" => ret = Ok(TemplateOf(args))
        /\ (args.hole # "none" /\ TemplateHoleValue(args) # None) =>
             LET text == StrOf(TemplateHoleValue(args))
                 got == ret.val
                 mid == SubSeq(got, Len(args.pre) + 1, Len(got) - Len(args.post))
             IN /\ ret.ok
                /\ Len(got) >= Len(args.pre) + Len(args.post)
                /\ SubSeq(got, 1, Len(args.pre)) = args.pre
                /\ SubSeq(got, Len(got) - Len(args.post) + 1, Len(got)) = args.post
                /\ args.method = "cli" => mid = text
                /\ args.method = "python" => IsQuotedLiteralOf(mid, text)

C8_Witness ==
    /\ fn = "apply_template_args"
    /\ args.method = "python"
    /\ args.hole = "input_path"
    /\ args.pre # <<>>
    /\ args.additional_template = None
    /\ args.values.input_path = Path(<<<<"e", ".", "t">>>>)
    /\ ret = Ok(args.pre \o <<"'", "e", ".", "t", "'">> \o args.post)

(***************************************************************************)
(* Specification of _prepare_python: call expressions rendered from a      *)
(* symbol path, positional tokens and keyword tokens are parsed once       *)
(***************************************************************************)
MaxArgs == 2
MaxKwargs == 1

SymbolPaths ==
    {<<<<"e", "x">>>>, <<<<"m">>, <<"f">>>>, <<<<"m">>, <<"s", "u", "b">>, <<"f">>>>}

\* a token is its text and the quote it is written in ("" for a bare token)
ArgTokens ==
    [text : {<<"a">>, <<" ", "b", ".", "t", " ">>}, q : {"'", "\""}]
        \cup [text : {<<"a">>}, q : {""}]

KwKeys == {<<"k">>, <<"t", "y">>}

KwTokens == [key : KwKeys, val : ArgTokens]

DistinctKeys(kws) == \A i, j \in 1..Len(kws) : i # j => kws[i].key # kws[j].key

PrepareInit ==
    /\ fn = "idle"
    /\ args \in {a \in [tree : SymbolPaths,
                        positional : SeqsUpTo(ArgTokens, MaxArgs),
                        keyword : SeqsUpTo(KwTokens, MaxKwargs),
                        pad : {<<>>, <<" ">>}] : DistinctKeys(a.keyword)}
    /\ ret = None
    /\ FlowIdle

RenderToken(t) == (IF t.q = "" THEN <<>> ELSE <<t.q>>) \o t.text \o (IF t.q = "" THEN <<>> ELSE <<t.q>>)

RenderSegments(a) ==
    [i \in 1..(Len(a.positional) + Len(a.keyword)) |->
        IF i <= Len(a.positional)
        THEN RenderToken(a.positional[i])
        ELSE LET kw == a.keyword[i - Len(a.positional)]
             IN kw.key \o <<"=">> \o RenderToken(kw.val)]

\* a.b.c(arg, ..., key=val, ...)
RenderCall(a) ==
    Join(a.tree, <<".">>) \o <<"(">> \o Join(RenderSegments(a), <<",">> \o a.pad) \o <<")">>

CallPreparePython ==
    /\ fn = "idle"
    /\ fn' = "_prepare_python"
    /\ ret' = PreparePython(RenderCall(args))
    /\ UNCHANGED <<args, flowVars>>

SpecPrepare == PrepareInit /\ [][CallPreparePython]_vars

ExpectedPositional(a) == [i \in 1..Len(a.positional) |-> Strip(a.positional[i].text)]

ExpectedKeyword(a) ==
    [k \in {a.keyword[i].key : i \in 1..Len(a.keyword)} |->
        Strip((CHOOSE kw \in {a.keyword[i] : i \in 1..Len(a.keyword)} : kw.key = k).val.text)]

ExpectedParse(a) ==
    Ok([function_tree |-> a.tree, args |-> ExpectedPositional(a), kwargs |-> ExpectedKeyword(a)])

\* C9: for every well-formed call expression a.b.c(arg, ..., key=val, ...)
\* _prepare_python returns the dotted symbol path, the positional arguments in
\* order and the keyword arguments as a mapping, every token dequoted and trimmed.
C9_PreparePythonParsesCall ==
    fn = "_prepare_python" => ret = ExpectedParse(args)

\* the same statement for the calls that pass at least one argument
C9_HoldsWithArguments ==
    (fn = "_prepare_python" /\ Len(args.positional) + Len(args.keyword) > 0)
        => ret = ExpectedParse(args)

(***************************************************************************)
(* Specification of the constructor with install: one MardaExtractor(...)  *)
(* call over every bounded list of installation recipes                    *)
(***************************************************************************)
MaxRecipes == 2
MaxPackages == 2

Packages == {"yadg", "nopkg"}

InstallRecipes ==
    [method : {"pip"}, packages : SeqsUpTo(Packages, MaxPackages)]
        \cup [method : {"conda", "apt"}, packages : {<<>>}]

EntryIds == {<<"y">>, <<"d">>}

NoRequest ==
    [kind |-> "none", input_path |-> None, input_type |-> <<>>, output_path |-> None,
     output_type |-> None, preferred_mode |-> "python", install |-> FALSE,
     use_venv |-> FALSE, extractor_definition |-> None]

InstallEntries ==
    [id : {<<"y">>}, supported_filetypes : {<<>>}, usage : {<<>>},
     installation : SeqsUpTo(InstallRecipes, MaxRecipes)]

InstallInit ==
    /\ fn = "idle" /\ args = None /\ ret = None
    /\ pc = [c \in CallIds |-> IF c = 1 THEN "init" ELSE "idle"]
    /\ \E e \in InstallEntries, v \in BOOLEAN :
         req = [c \in CallIds |->
                  IF c = 1
                  THEN [NoRequest EXCEPT !.kind = "MardaExtractor", !.install = TRUE,
                                         !.use_venv = v,
                                         !.extractor_definition = e]
                  ELSE NoRequest]
    /\ obj = [c \in CallIds |-> NoFrame]
    /\ out = [c \in CallIds |-> "none"]
    /\ trace = [c \in CallIds |-> <<>>]
    /\ files = {}
    /\ venvs = <<>>
    /\ ambient = {}

InstallNext ==
    \E c \in CallIds :
        \/ Construct(c)
        \/ InstallBegin(c)
        \/ InstallRecipe(c)
        \/ PipInstall(c)
        \/ InstallReturn(c)
        \/ Constructed(c)

SpecInstall == InstallInit /\ [][InstallNext]_vars

(***************************************************************************)
(* What the trace of a call says about its install                         *)
(***************************************************************************)
IsRecipeEv(e) == e.ev = "recipe"

\* the recipes install has started on, by index, in the order it took them
RecipesTried(c) ==
    LET evs == SelectSeq(trace[c], IsRecipeEv)
    IN [n \in 1..Len(evs) |-> evs[n].i]

PipRuns(c, i, ok) ==
    {n \in 1..Len(trace[c]) : trace[c][n].ev = "pip" /\ trace[c][n].i = i /\ trace[c][n].ok = ok}

\* every package of recipe i has been installed
RecipeSucceeded(c, i) ==
    /\ i \in 1..Len(obj[c].entry.installation)
    /\ obj[c].entry.installation[i].method = "pip"
    /\ \E n \in 1..Len(trace[c]) : trace[c][n].ev = "recipe" /\ trace[c][n].i = i
    /\ Cardinality(PipRuns(c, i, TRUE)) = Len(obj[c].entry.installation[i].packages)
    /\ PipRuns(c, i, FALSE) = {}

InstallReturned(c) == \E n \in 1..Len(trace[c]) : trace[c][n].ev = "install" /\ trace[c][n].ok

InInstall(c) == pc[c] \in {"install", "recipe", "pip", "installed"}

FallbackEntry(e) ==
    /\ Len(e.installation) = 2
    /\ e.installation[1] = [method |-> "pip", packages |-> <<"nopkg">>]
    /\ e.installation[2] = [method |-> "pip", packages |-> <<"yadg">>]

\* C1: install takes the recipes in their listed order; a pip recipe with a
\* failing package is abandoned at that package and the next recipe is taken;
\* a recipe whose packages all install ends the loop, so no later recipe is
\* tried; with a first recipe that cannot be installed and a valid second one
\* install returns normally, having installed the second.
C1_InstallFallsBackInOrder ==
    \A c \in CallIds :
        obj[c].entry # None =>
            LET tried == RecipesTried(c)
                inst == obj[c].entry.installation
            IN /\ \A n \in 1..Len(tried) : tried[n] = n
               /\ \A n \in 1..(Len(tried) - 1) :
                    /\ inst[n].method = "pip"
                    /\ Cardinality(PipRuns(c, n, FALSE)) = 1
                    /\ \A k \in PipRuns(c, n, TRUE) : \A f \in PipRuns(c, n, FALSE) : k < f
               /\ \A n \in 1..Len(tried) :
                    RecipeSucceeded(c, n) =>
                        /\ n = Len(tried)
                        /\ ~InInstall(c) => InstallReturned(c)
               /\ (FallbackEntry(obj[c].entry) /\ req[c].install /\ pc[c] = "done"
                     /\ out[c] # "OSError: venv.create") =>
                    /\ out[c] = "returned"
                    /\ tried = <<1, 2>>
                    /\ RecipeSucceeded(c, 2)
                    /\ "yadg" \in (IF req[c].use_venv
                                   THEN venvs[VenvDir(obj[c].entry.id)] ELSE ambient)

C1_Witness ==
    /\ pc[1] = "done"
    /\ FallbackEntry(obj[1].entry)
    /\ out[1] = "returned"
    /\ RecipesTried(1) = <<1, 2>>
    /\ PipRuns(1, 1, FALSE) # {}
    /\ RecipeSucceeded(1, 2)

\* C2: install returns without error only if some recipe fully succeeded;
\* a list in which every pip recipe fails, or that holds only conda recipes,
\* makes install fail with an error.
C2_InstallReturnsOnlyAfterSuccess ==
    \A c \in CallIds :
        InstallReturned(c) =>
            \E i \in 1..Len(obj[c].entry.installation) : RecipeSucceeded(c, i)

\* the part of C2 about the unsupported method: a conda recipe that is
\* reached makes install raise, it is never skipped
C2_CondaIsNeverSkipped ==
    \A c \in CallIds :
        \A n \in 1..Len(trace[c]) :
            (trace[c][n].ev = "recipe" /\ trace[c][n].what = "conda") =>
                /\ n = Len(trace[c])
                /\ out[c] = "RuntimeError: Installation method not yet supported"

(***************************************************************************)
(* Specification of one call: extract(...), or MardaExtractor(...) followed *)
(* by execute(...), with every outcome of the download, the registry, the  *)
(* venv creation, pip and the extractor's process                          *)
(***************************************************************************)
HttpsUrl == <<"h", "t", "t", "p", "s", ":", "/", "/", "h", "/", "f", ".", "m">>
HttpUrl == <<"h", "t", "t", "p", ":", "/", "/", "h", "/", "f", ".", "m">>
DataFile == <<"d", ".", "m">>
NoFile == <<"n", ".", "m">>
OutFile == <<"o", ".", "n">>
Q == <<"q">>

ExtractRequests ==
    [kind : {"extract"},
     input_path : {Str(HttpsUrl), Str(HttpUrl), Str(DataFile), Str(NoFile), Path(<<DataFile>>)},
     input_type : {X, Q},
     output_path : {None, Str(OutFile)},
     output_type : {None},
     preferred_mode : {"python", "cli", "shell"},
     install : BOOLEAN,
     use_venv : BOOLEAN,
     extractor_definition : {None} \cup RegistryEntries]

ExecuteRequests ==
    [kind : {"execute"},
     input_path : {Path(<<DataFile>>)},
     input_type : {X, Q},
     output_path : {None, Path(<<OutFile>>)},
     output_type : {None, Str(<<"n", "c">>)},
     preferred_mode : {"python", "cli"},
     install : BOOLEAN,
     use_venv : BOOLEAN,
     extractor_definition : RegistryEntries]

Init ==
    /\ fn = "idle" /\ args = None /\ ret = None
    /\ \E r \in ExtractRequests \cup ExecuteRequests :
         /\ req = [c \in CallIds |-> IF c = 1 THEN r ELSE NoRequest]
         /\ pc = [c \in CallIds |-> IF c # 1 THEN "idle"
                                    ELSE IF r.kind = "extract" THEN "extract" ELSE "init"]
    /\ obj = [c \in CallIds |-> NoFrame]
    /\ out = [c \in CallIds |-> "none"]
    /\ trace = [c \in CallIds |-> <<>>]
    /\ files \in {{DataFile}, {DataFile, OutFile, <<"d", ".", "j", "s", "o", "n">>}}
    /\ venvs = <<>>
    /\ ambient \in {{}, {"yadg"}}

Next ==
    \E c \in CallIds :
        \/ ExtractBegin(c)
        \/ ExtractExists(c)
        \/ ExtractLookup(c)
        \/ Construct(c)
        \/ InstallBegin(c)
        \/ InstallRecipe(c)
        \/ PipInstall(c)
        \/ InstallReturn(c)
        \/ Constructed(c)
        \/ ExecuteTypeCheck(c)
        \/ ExecuteUsage(c)
        \/ ExecuteTemplate(c)
        \/ ExecuteCli(c)
        \/ CheckOutput(c)
        \/ ExecutePythonVenv(c)
        \/ PyImport(c)
        \/ PyResolve(c)
        \/ PyInvoke(c)
        \/ ExtractFinally(c)

Spec == Init /\ [][Next]_vars

Events(c, names) == {n \in 1..Len(trace[c]) : trace[c][n].ev \in names}

\* execute has been left, by a return or by an exception
ExecuteOver(c) == pc[c] \in {"finally", "done"} /\ Events(c, {"execute"}) # {}

CliRuns(c) == {n \in Events(c, {"subprocess"}) : trace[c][n].what = "cli"}

OutputMissing == "RuntimeError: Requested output file does not exist"

\* C3 as stated: in CLI mode, an output path that does not exist after the
\* command has run makes execute fail with the output-missing error,
\* whatever the exit status of the command's process.
C3_MissingOutputIsAlwaysOutputError ==
    \A c \in CallIds :
        (ExecuteOver(c) /\ CliRuns(c) # {} /\ ~Exists(files, obj[c].output_path))
            => out[c] = OutputMissing

\* C3 as amended: in CLI mode, an output path that does not exist after the
\* command has run never lets execute return normally: execute fails with the
\* output-missing error if the process exited with status zero and with the
\* CalledProcessError of check_output if it exited with a non-zero status.
C3_MissingOutputNeverReturns ==
    \A c \in CallIds :
        (ExecuteOver(c) /\ CliRuns(c) # {} /\ ~Exists(files, obj[c].output_path))
            => /\ out[c] # "returned"
               /\ \A n \in CliRuns(c) :
                    /\ trace[c][n].i = 0 => out[c] = OutputMissing
                    /\ trace[c][n].i # 0 => out[c] = "CalledProcessError"

C3_Witness ==
    /\ pc[1] = "done"
    /\ req[1].use_venv
    /\ \E n \in CliRuns(1) : trace[1][n].i = 0
    /\ ~Exists(files, obj[1].output_path)
    /\ out[1] = OutputMissing

Unsupported(c) ==
    /\ obj[c].entry # None
    /\ \A i \in 1..Len(obj[c].entry.supported_filetypes) :
         obj[c].entry.supported_filetypes[i].id # req[c].input_type

\* C4: for an input_type that is not the id of a supported file type execute
\* raises the unsupported-input-type error before usage selection, template
\* resolution, any subprocess and any import, and so without side effect.
C4_UnsupportedTypeFailsFirst ==
    \A c \in CallIds :
        (Unsupported(c) /\ Events(c, {"execute"}) # {}) =>
            /\ out[c] = "ValueError: File type not supported"
            /\ Events(c, {"parse_usage", "template", "subprocess", "import", "call"}) = {}
            /\ obj[c].method = "" /\ obj[c].command = <<>>
            /\ pc[c] \in {"finally", "done"}

C4_Witness ==
    /\ pc[1] = "done"
    /\ req[1].kind = "execute"
    /\ req[1].input_type = Q
    /\ obj[1].entry.usage # <<>>
    /\ out[1] = "ValueError: File type not supported"

HasPrefix(text, prefix) == Len(text) >= Len(prefix) /\ SubSeq(text, 1, Len(prefix)) = prefix

\* a string that names a remote resource, by http or by https
IsRemoteUrl(v) ==
    /\ v.kind = "str"
    /\ \/ HasPrefix(v.text, <<"h", "t", "t", "p", ":", "/", "/">>)
       \/ HasPrefix(v.text, <<"h", "t", "t", "p", "s", ":", "/", "/">>)

\* C5: a remote URL given as input_path is downloaded to a temporary file
\* before any processing, and that file is gone when extract finishes, on
\* every exit path.
C5_RemoteUrlIsDownloadedAndRemoved ==
    \A c \in CallIds :
        (req[c].kind = "extract" /\ IsRemoteUrl(req[c].input_path)) =>
            /\ pc[c] \notin {"idle", "extract"} =>
                 (trace[c] # <<>> /\ trace[c][1].ev = "download")
            /\ pc[c] = "done" =>
                 /\ ~Exists(files, TmpPath(c))
                 /\ (trace[c][1].ok => trace[c][Len(trace[c])].ev = "unlink")

\* the part of C5 that the code keeps: a temporary file that was made is
\* removed on every exit path of extract
C5_DownloadedFileIsRemoved ==
    \A c \in CallIds :
        (pc[c] = "done" /\ Events(c, {"download"}) # {}) =>
            /\ ~Exists(files, TmpPath(c))
            /\ (trace[c][1].ok => trace[c][Len(trace[c])].ev = "unlink")

(***************************************************************************)
(* Specification of the isolated runtimes: two MardaExtractor(...) calls,  *)
(* for the same or for different entry ids, in any interleaving            *)
(***************************************************************************)
VenvRequests ==
    [kind : {"MardaExtractor"}, input_path : {None}, input_type : {X}, output_path : {None},
     output_type : {None}, preferred_mode : {"python"},
     install : BOOLEAN, use_venv : BOOLEAN,
     extractor_definition :
        [id : EntryIds, supported_filetypes : {<<[id |-> X, template |-> None]>>},
         usage : {<<PyUsage>>}, installation : {<<PipYadg>>, <<PipNopkg, PipYadg>>}]]

VenvInit ==
    /\ fn = "idle" /\ args = None /\ ret = None
    /\ pc = [c \in CallIds |-> "init"]
    /\ req \in [CallIds -> VenvRequests]
    /\ obj = [c \in CallIds |-> NoFrame]
    /\ out = [c \in CallIds |-> "none"]
    /\ trace = [c \in CallIds |-> <<>>]
    /\ files = {}
    /\ venvs = <<>>
    /\ ambient = {}

VenvNext ==
    \E c \in CallIds :
        \/ Construct(c)
        \/ InstallBegin(c)
        \/ InstallRecipe(c)
        \/ PipInstall(c)
        \/ InstallReturn(c)
        \/ Constructed(c)

SpecVenv == VenvInit /\ [][VenvNext]_vars

\* C6: with use_venv the runtime of a call is keyed by the entry id alone
\* (same id, same path; different ids, different paths); a runtime is never
\* destroyed or emptied by a later call, so what a call installed is still
\* there afterwards; with use_venv false no runtime is created.
C6_RuntimeKeyedByIdAndKept ==
    \A c \in CallIds :
        /\ \A c2 \in CallIds :
             (obj[c].venv_dir # None /\ obj[c2].venv_dir # None) =>
                 (obj[c].venv_dir = obj[c2].venv_dir <=> obj[c].entry.id = obj[c2].entry.id)
        /\ \A n \in Events(c, {"venv_create"}) :
             trace[c][n].ok =>
                 /\ req[c].use_venv
                 /\ trace[c][n].what \in DOMAIN venvs
                 /\ trace[c][n].what = StrOf(obj[c].venv_dir)
        /\ \A n \in Events(c, {"pip"}) :
             (trace[c][n].ok /\ req[c].use_venv) =>
                 /\ StrOf(obj[c].venv_dir) \in DOMAIN venvs
                 /\ trace[c][n].what \in venvs[StrOf(obj[c].venv_dir)]
        /\ (~req[c].use_venv /\ pc[c] \notin {"idle", "init"}) =>
             /\ obj[c].venv_dir = None
             /\ Events(c, {"venv_create"}) = {}
        /\ \A d \in DOMAIN venvs :
             \E c2 \in CallIds : req[c2].use_venv /\ obj[c2].venv_dir = Str(d)

\* the second call, with install=False, finds the package the first call
\* installed for the same id
C6_Witness ==
    /\ pc[1] = "done" /\ pc[2] = "done"
    /\ req[1].use_venv /\ req[2].use_venv
    /\ req[1].install /\ ~req[2].install
    /\ obj[1].entry.id = obj[2].entry.id
    /\ \E n \in Events(2, {"venv_create"}) : trace[2][n].ok /\ trace[2][n].i = 1
    /\ "yadg" \in venvs[StrOf(obj[2].venv_dir)]

(***************************************************************************)
(* Specification of _execute_python: one call for every setup and command  *)
(* of a bounded set, with and without the package installed                *)
(***************************************************************************)
PythonSetups ==
    {None, Str(Yadg), Str(Json), Str(Yadg \o <<".">> \o Extractors),
     Str(<<"i", "m", "p", "o", "r", "t", " ">> \o Yadg), Str(<<"n", "o", "m", "o", "d">>)}

PythonCommands ==
    {<<"y", "a", "d", "g", ".", "e", "x", "t", "r", "a", "c", "t", "o", "r", "s", ".", "e", "x", "t", "r", "a", "c", "t", "(", "'", "e", "'", ",", " ", "'", "f", "'", ")">>,
     <<"j", "s", "o", "n", ".", "l", "o", "a", "d", "s", "(", "'", "e", "'", ")">>,
     <<"y", "a", "d", "g", ".", "l", "o", "a", "d", "s", "(", "'", "e", "'", ")">>,
     <<"e", "x", "t", "r", "a", "c", "t", "o", "r", "s", ".", "e", "x", "t", "r", "a", "c", "t", "(", "'", "e", "'", ")">>,
     <<"y", "a", "d", "g", ".", "e", "x", "t", "r", "a", "c", "t", "o", "r", "s", "(", "'", "e", "'", ")">>,
     <<"y", "a", "d", "g", ".", "e", "x", "t", "r", "a", "c", "t", "o", "r", "s", ".", "e", "x", "t", "r", "a", "c", "t", "(", "k", "=", "{", "'", "a", "'", "}", ")">>,
     <<"y", "a", "d", "g", ".", "e", "x", "t", "r", "a", "c", "t", "o", "r", "s", ".", "e", "x", "t", "r", "a", "c", "t">>,
     <<"j", "s", "o", "n", ".", "l", "o", "a", "d", "s", ".", "x", "(", "\"", "e", "\"", ",", " ", "k", "=", "v", ")">>}

PythonInit ==
    /\ fn = "idle" /\ args = None /\ ret = None
    /\ pc = [c \in CallIds |-> IF c = 1 THEN "python" ELSE "idle"]
    /\ req = [c \in CallIds |-> IF c = 1 THEN [NoRequest EXCEPT !.kind = "_execute_python"]
                                ELSE NoRequest]
    /\ \E command \in PythonCommands, setup \in PythonSetups :
         obj = [c \in CallIds |-> IF c = 1
                                  THEN [NoFrame EXCEPT !.command = command, !.setup = setup,
                                                       !.method = "python"]
                                  ELSE NoFrame]
    /\ out = [c \in CallIds |-> "none"]
    /\ trace = [c \in CallIds |-> <<>>]
    /\ files = {}
    /\ venvs = <<>>
    /\ ambient \in {{}, {"yadg"}}

PythonNext == \E c \in CallIds : PyImport(c) \/ PyResolve(c) \/ PyInvoke(c)

SpecPython == PythonInit /\ [][PythonNext]_vars

\* the symbol path as written in the command, left of the first "("
WrittenPath(command) == Split(Split(command, "(")[1], ".")

Resolves(module, path) ==
    \A n \in 1..(Len(path) - 1) : SubSeq(path, 2, n + 1) \in module.attrs

Invoked(c) == Events(c, {"call"}) # {}

Imported(c) == \E n \in Events(c, {"import"}) : trace[c][n].ok

\* C10: in _execute_python the callable is invoked only after the first
\* segment of the symbol path equalled the imported module's name and the
\* other segments were resolved from that module; a differing first segment
\* fails with the module-name-mismatch error, an absent attribute with the
\* could-not-resolve error, a setup that is not a bare import target is
\* rejected, and in none of these cases is the callable invoked.
C10_CallOnlyAfterResolution ==
    \A c \in CallIds :
        (obj[c].method = "python" /\ obj[c].venv_dir = None
           /\ pc[c] \in {"invoke", "finally", "done"}) =>
            LET setup == obj[c].setup
                path == WrittenPath(obj[c].command)
                parsed == Has(obj[c].command, "(")
                          /\ out[c] \notin {"RuntimeError: Cannot parse", "IndexError"}
            IN /\ (Invoked(c) \/ pc[c] = "invoke") =>
                    /\ setup # None /\ ~Has(StrOf(setup), " ")
                    /\ Imported(c)
                    /\ path[1] = ModuleTable(ambient)[StrOf(setup)].name
                    /\ Resolves(ModuleTable(ambient)[StrOf(setup)], path)
               /\ (setup # None /\ Has(StrOf(setup), " ")) =>
                    /\ out[c] = "RuntimeError: Only simple import invocation is supported"
                    /\ ~Imported(c) /\ ~Invoked(c)
               /\ (Imported(c) /\ parsed /\ pc[c] # "invoke") =>
                    LET module == ModuleTable(ambient)[StrOf(setup)]
                    IN /\ path[1] # module.name =>
                            (out[c] = "RuntimeError: Module name mismatch" /\ ~Invoked(c))
                       /\ (path[1] = module.name /\ ~Resolves(module, path)) =>
                            (out[c] = "RuntimeError: Could not resolve" /\ ~Invoked(c))
               /\ (pc[c] # "invoke" /\ out[c] \notin {"returned", "Exception: raised by the extractor"})
                    => ~Invoked(c)

C10_Witness ==
    /\ pc[1] = "done"
    /\ req[1].kind = "_execute_python"
    /\ obj[1].setup = Str(Json)
    /\ obj[1].command = <<"y", "a", "d", "g", ".", "l", "o", "a", "d", "s", "(", "'", "e", "'", ")">>
    /\ out[1] = "RuntimeError: Module name mismatch"
    /\ Imported(1) /\ ~Invoked(1)

(***************************************************************************)
(* Specification of apply_template_args over templates with several        *)
(* placeholders: a template is a sequence of pieces, each a literal text   *)
(* or the placeholder of one field, and is resolved once                   *)
(***************************************************************************)
MaxPieces == 2

Literal == <<"r", " ", "-", "x", " ">>

Pieces == default_fields \cup {"literal"}

FieldValues ==
    [input_type : {Str(<<"e">>)},
     input_path : {Path(<<<<"d">>, <<"f", ".", "m">>>>)},
     output_type : {None, Str(<<"j">>)},
     output_path : {None, Path(<<<<"o", ".", "j">>>>)}]

FieldsInit ==
    /\ fn = "idle"
    /\ args \in [pieces : SeqsUpTo(Pieces, MaxPieces), method : ExecutionMethods,
                 values : FieldValues, additional_template : TemplateOverrides,
                 order : FieldOrders]
    /\ ret = None
    /\ FlowIdle

RECURSIVE TemplateOfPieces(_)
TemplateOfPieces(pieces) ==
    IF pieces = <<>> THEN <<>>
    ELSE (IF pieces[1] = "literal" THEN Literal ELSE Placeholder(pieces[1]))
            \o TemplateOfPieces(Tail(pieces))

CallApplyTemplateFields ==
    /\ fn = "idle"
    /\ fn' = "apply_template_args"
    /\ ret' = Ok(ApplyTemplateArgs(TemplateOfPieces(args.pieces), args.method, args.values,
                                   args.additional_template, args.order))
    /\ UNCHANGED <<args, flowVars>>

SpecFields == FieldsInit /\ [][CallApplyTemplateFields]_vars

\* the override of field f, if the per-filetype template has one
HasOverride(a, f) == a.additional_template # None /\ f \in DOMAIN a.additional_template

OverrideElseSupplied(a, f) ==
    IF HasOverride(a, f) THEN a.additional_template[f] ELSE a.values[f]

\* the text a non-null value is written as (bare, or as a string literal)
Written(method, value) ==
    IF method = "cli" THEN StrOf(value) ELSE Repr(StrOf(value))

\* the template with every placeholder of a field that resolves to a non-null
\* value written out, and every other piece as it is in the template
RECURSIVE ResolvedPieces(_, _)
ResolvedPieces(a, pieces) ==
    IF pieces = <<>> THEN <<>>
    ELSE (IF pieces[1] = "literal" THEN Literal
          ELSE IF OverrideElseSupplied(a, pieces[1]) = None THEN Placeholder(pieces[1])
          ELSE Written(a.method, OverrideElseSupplied(a, pieces[1])))
            \o ResolvedPieces(a, Tail(pieces))

\* C11: each field resolves to its per-filetype override if one is present and
\* otherwise to the supplied value; every occurrence of the placeholder of a
\* field with a non-null resolved value is replaced, the placeholder of a field
\* with a null resolved value is left as it is, and no error is raised.
C11_OverrideElseSuppliedIsSubstituted ==
    fn = "apply_template_args" => ret = Ok(ResolvedPieces(args, args.pieces))

\* the same statement for the calls in which no override is the empty string
C11_HoldsForNonEmptyOverrides ==
    (fn = "apply_template_args"
        /\ \A f \in default_fields :
              HasOverride(args, f) => Truthy(args.additional_template[f]))
        => ret = Ok(ResolvedPieces(args, args.pieces))

\* two occurrences of one placeholder are both replaced, by the override
C11_BothOccurrencesReplaced ==
    /\ fn = "apply_template_args"
    /\ args.pieces = <<"input_type", "input_type">>
    /\ args.method = "cli"
    /\ args.additional_template = [input_type |-> Str(<<"t">>)]
    /\ ret = Ok(<<"t", "t">>)

\* a null field keeps its placeholder next to a replaced one
C11_NullFieldKeepsPlaceholder ==
    /\ fn = "apply_template_args"
    /\ args.pieces = <<"output_path", "input_type">>
    /\ args.method = "cli"
    /\ args.additional_template = None
    /\ args.values.output_path = None
    /\ ret = Ok(Placeholder("output_path") \o <<"e">>)

(***************************************************************************)
(* Specification of _prepare_python over command strings that may be       *)
(* malformed: an argument segment may have a second "=" or a brace in its  *)
(* keyword value, and either parenthesis may be missing                    *)
(***************************************************************************)
MaxSegments == 2

WellFormedSegments ==
    {<<"'", "a", "'">>, <<"k", "=", "'", "a", "'">>}

\* k=a=b    k={a}    k="b}"    ty={"t": "e", "d": "e"}
MalformedSegments ==
    {<<"k", "=", "a", "=", "b">>,
     <<"k", "=", "{", "a", "}">>,
     <<"k", "=", "\"", "b", "}", "\"">>,
     <<"t", "y", "=", "{", "\"", "t", "\"", ":", " ", "\"", "e", "\"", ",", " ",
       "\"", "d", "\"", ":", " ", "\"", "e", "\"", "}">>}

MalformedInit ==
    /\ fn = "idle"
    /\ args \in [tree : SymbolPaths,
                 segments : SeqsUpTo(WellFormedSegments \cup MalformedSegments, MaxSegments),
                 open : BOOLEAN, close : BOOLEAN]
    /\ ret = None
    /\ FlowIdle

\* a.b.c(segment, ...) with the parentheses that are there
RenderCommand(a) ==
    Join(a.tree, <<".">>) \o (IF a.open THEN <<"(">> ELSE <<>>)
        \o Join(a.segments, <<",", " ">>) \o (IF a.close THEN <<")">> ELSE <<>>)

CallPrepareMalformed ==
    /\ fn = "idle"
    /\ fn' = "_prepare_python"
    /\ ret' = PreparePython(RenderCommand(args))
    /\ UNCHANGED <<args, flowVars>>

SpecMalformed == MalformedInit /\ [][CallPrepareMalformed]_vars

HasMalformedSegment(a) == \E i \in 1..Len(a.segments) : a.segments[i] \in MalformedSegments

CannotParse == Raise("RuntimeError: Cannot parse")

\* C12: _prepare_python fails with the parse error 'Cannot parse' for every
\* malformed command string (a segment with more than one "=" or with a brace
\* in a keyword value, no "(", no closing ")"); it never returns a result for
\* such input and never fails with another kind of error.
C12_MalformedCommandIsParseError ==
    (fn = "_prepare_python" /\ (HasMalformedSegment(args) \/ ~args.open \/ ~args.close))
        => ret = CannotParse

\* the same statement for the malformed segments of a command that has its "("
C12_MalformedSegmentIsParseError ==
    (fn = "_prepare_python" /\ args.open /\ HasMalformedSegment(args))
        => ret = CannotParse

\* without "(" the failure is the IndexError of command.split("(")[1]
C12_NoOpeningParenthesisIsIndexError ==
    (fn = "_prepare_python" /\ ~args.open) => ret = Raise("IndexError")

\* without ")" well-formed segments are parsed and returned
C12_NoClosingParenthesisReturns ==
    (fn = "_prepare_python" /\ args.open /\ ~args.close /\ ~HasMalformedSegment(args))
        => ret.ok

(***************************************************************************)
(* Specification of two concurrent extract(...) calls, each with an entry  *)
(* given as extractor_definition, in any interleaving of their steps       *)
(***************************************************************************)
RaceEntries ==
    [id : EntryIds, supported_filetypes : {<<[id |-> X, template |-> None]>>},
     usage : {<<PyUsage, CliUsage>>}, installation : {<<PipYadg>>}]

RaceRequests ==
    [kind : {"extract"}, input_path : {Str(DataFile)}, input_type : {X},
     output_path : {None}, output_type : {None}, preferred_mode : {"python", "cli"},
     install : BOOLEAN, use_venv : BOOLEAN, extractor_definition : RaceEntries]

RaceInit ==
    /\ fn = "idle" /\ args = None /\ ret = None
    /\ pc = [c \in CallIds |-> "extract"]
    /\ req \in {r \in [CallIds -> RaceRequests] :
                   r[1].use_venv /\ r[1].install /\ r[1].preferred_mode = "python"}
    /\ obj = [c \in CallIds |-> NoFrame]
    /\ out = [c \in CallIds |-> "none"]
    /\ trace = [c \in CallIds |-> <<>>]
    /\ files = {DataFile}
    /\ venvs = <<>>
    /\ ambient = {"yadg"}

SpecRace == RaceInit /\ [][Next]_vars

\* call c is inside MardaExtractor.install for an isolated runtime
Provisioning(c) == InInstall(c) /\ req[c].use_venv /\ obj[c].venv_dir # None

\* C13: provisioning and first installation of the isolated runtime of one
\* entry id are a critical section: two concurrent extract calls with use_venv
\* and the same entry id are never both inside it.
C13_ProvisioningIsCriticalSection ==
    \A c1, c2 \in CallIds :
        (c1 # c2 /\ req[c1].kind = "extract" /\ req[c2].kind = "extract"
            /\ req[c1].extractor_definition.id = req[c2].extractor_definition.id)
            => ~(Provisioning(c1) /\ Provisioning(c2))

(***************************************************************************)
(* The order of the stages of one extract call                             *)
(***************************************************************************)
\* every event of call c named in first comes before every event named in then
Precede(c, first, then) ==
    \A m \in Events(c, first), n \in Events(c, then) : m < n

PlanEvents == {"execute", "parse_usage", "template"}

InstallEvents == {"venv_create", "pip"}

RunEvents == {"subprocess", "import", "call"}

\* C14: in extract the supported-file-type check, usage selection and template
\* resolution happen before the isolated runtime is created and before any
\* package-install subprocess is started, and installation before execution;
\* so a call whose input type the entry does not list fails without having
\* created a runtime or installed a package.
C14_PlanPrecedesInstallation ==
    \A c \in CallIds :
        req[c].kind = "extract" =>
            /\ Precede(c, PlanEvents, InstallEvents)
            /\ Precede(c, InstallEvents, RunEvents)
            /\ (Unsupported(c) /\ pc[c] = "done") =>
                 \A n \in Events(c, InstallEvents) : ~trace[c][n].ok

\* what holds of the code: the runtime is created and the packages are
\* installed by the constructor, before execute checks the file type, selects
\* the usage and resolves the template, and before anything is run
C14_InstallationPrecedesPlanAndExecution ==
    \A c \in CallIds :
        req[c].kind = "extract" =>
            /\ Precede(c, InstallEvents, PlanEvents)
            /\ Precede(c, InstallEvents, RunEvents)
            /\ Precede(c, PlanEvents, RunEvents)

\* an extract call for an unsupported type that has created the runtime and
\* run pip before it failed on the type check
C14_UnsupportedTypeAfterInstall ==
    /\ pc[1] = "done"
    /\ req[1].kind = "extract"
    /\ Unsupported(1)
    /\ out[1] = "ValueError: File type not supported"
    /\ \E n \in Events(1, {"venv_create"}) : trace[1][n].ok
    /\ \E n \in Events(1, {"pip"}) : trace[1][n].ok

====
